---- MODULE Spec2Model ----
(***************************************************************************)
(* Booking routes of TravelMate (backend/routes/bookingRoutes.js).         *)
(*                                                                         *)
(* The state is the three persisted collections the handlers read and      *)
(* write (Booking, Trip, User) and the wall clock read by `new Date()`.    *)
(* Every action is one whole request handler, run from its first line to   *)
(* its response; the response of a handler is an operator of the state it  *)
(* finds and of the request (XxxResponse), and a request the handler       *)
(* rejects leaves every collection as it was.  Where the order of the      *)
(* awaits inside a handler matters (requests that interleave, a save that  *)
(* throws), the handler is also given step by step, one action per await,  *)
(* with the documents it holds kept in `inflight`.                         *)
(*                                                                         *)
(* Request fields that no handler reads after validation (pickupPoint,     *)
(* dropPoint, paymentMethod, specialRequests, review, the contents of      *)
(* passengerDetails) are carried as one flag `fieldsOk` (their validators  *)
(* passed or not) or left out of the stored record; they take part in no   *)
(* condition and no computation of the handlers.                           *)
(***************************************************************************)
EXTENDS Integers, Sequences, FiniteSets, TLC

VARIABLES
    bookings,   \* the Booking collection, in creation order; the index is the id
    trips,      \* the Trip collection: trip id -> Trip document
    users,      \* the User collection: user id -> rating {average, count}
    now,        \* the wall clock, in milliseconds
    inflight    \* the requests under way, when handlers run step by step

vars == <<bookings, trips, users, now, inflight>>

----------------------------------------------------------------------------
(* Bounds of the model *)

MaxBookings == 2          \* bookings ever created
TotalSeats == 2           \* capacity of the active trip
PricePerSeat == 10        \* price of a seat of the active trip
MaxExtraMs == 1           \* how far past the OTP lifetime the clock may run
MaxDeficit == 1           \* how far below zero a trip's bookedSeats may be driven
MaxRequests == 2          \* requests under way at the same time

(* Constants of the program *)

MinSeatsBooked == 1       \* body('seatsBooked').isInt({ min: 1, max: 7 })
MaxSeatsBooked == 7
MinPassengerDetails == 1  \* body('passengerDetails').isArray({ min: 1 })
OtpLength == 4            \* body('otp').isLength({ min: 4, max: 4 })
OtpValidMinutes == 30     \* if (otpAge > 30)
MsPerMinute == 1000 * 60  \* (new Date() - generatedAt) / (1000 * 60)
MinRating == 1            \* body('rating').isInt({ min: 1, max: 5 })
MaxRating == 5

----------------------------------------------------------------------------
(* The world the requests come from *)

Users == {"u1", "u2", "u3"}
TripIds == {"t1", "t2"}
NoTrip == "t0"                          \* an id no Trip document has
RequestTripIds == TripIds \cup {NoTrip}

NoUser == "none"
NoTx == "none"                          \* transactionId absent from the body
NoReason == "none"                      \* reason absent from the body
NoTime == -1                            \* a Date field never set

OtpCodes == {"4821"}                    \* the code generateOTP draws
SubmittedOtps == {"4821", "1357", "482"} \* "482" fails the length validator
OtpDigits(code) == IF code = "482" THEN 3 ELSE 4

Reasons == {"plans changed"}
\* req.body.rating as the JSON body carries it: the number n, or the string
\* "n" of one digit.  isInt() checks the text of the value and converts
\* nothing, so both reach the handler.
Num(n) == [text |-> FALSE, value |-> n]
Text(n) == [text |-> TRUE, value |-> n]
RatingRequests == {Num(2), Num(5), Num(6), Text(5)}   \* 6 fails the validator
BookingIds == 1..MaxBookings            \* ids a request may name
Requests == 1..MaxRequests              \* the requests that may be under way

\* A request that has not reached the server: no copy loaded, no response.
NoDoc == <<>>
NoResp == [status |-> 0, message |-> "", contact |-> [name |-> <<>>, phone |-> <<>>]]
IdleRequest ==
    [pc |-> "idle", op |-> "none", user |-> NoUser, body |-> NoDoc,
     trip |-> NoDoc, booking |-> NoDoc, target |-> NoDoc, bid |-> 0,
     resp |-> NoResp]
Loaded(doc) == DOMAIN doc # {}

\* The bodies of POST / the model sends: those the handler's checks tell
\* apart, and one body for each validator that can fail.
CreateBody(t, s, d, ok) ==
    [tripId |-> t, seatsBooked |-> s, details |-> d, fieldsOk |-> ok]

CreateBodies ==
    {CreateBody("t1", sd[1], sd[2], TRUE) :
        sd \in {<<1, 1>>, <<2, 2>>, <<3, 3>>, <<1, 2>>, <<3, 1>>}}
    \cup {CreateBody(NoTrip, 1, 1, TRUE), CreateBody("t2", 1, 1, TRUE),
          CreateBody("t1", 0, 1, TRUE), CreateBody("t1", 8, 1, TRUE),
          CreateBody("t1", 1, 0, TRUE), CreateBody("t1", 1, 1, FALSE)}

\* The bodies of PATCH /:id/payment; "pending" and "" fail the validators.
PaymentBody(ps, tx) == [paymentStatus |-> ps, transactionId |-> tx]

PaymentBodies ==
    {PaymentBody("paid", "tx1"), PaymentBody("paid", NoTx),
     PaymentBody("failed", NoTx), PaymentBody("pending", NoTx),
     PaymentBody("paid", "")}

TickSteps == {OtpValidMinutes * MsPerMinute, OtpValidMinutes * MsPerMinute + 1}

\* firstName + ' ' + lastName, and phone, of a user document
UserName(u) == <<"name", u>>
UserPhone(u) == <<"phone", u>>

NoContact == [name |-> <<>>, phone |-> <<>>, sharedAt |-> NoTime]
NoContactInfo == [name |-> <<>>, phone |-> <<>>]   \* contactInfo = {}

Resp(s, m) == [status |-> s, message |-> m, contact |-> NoContactInfo]
ValidationErrors == Resp(400, "errors")

----------------------------------------------------------------------------
(* Arithmetic helpers *)

RECURSIVE Gcd(_, _)
Gcd(a, b) == IF b = 0 THEN a ELSE Gcd(b, a % b)

Frac(n, d) == IF n = 0 THEN [num |-> 0, den |-> 1]
              ELSE [num |-> n \div Gcd(n, d), den |-> d \div Gcd(n, d)]

----------------------------------------------------------------------------
(* Models (backend/models/Trip.js, Booking.js: not part of the sources) *)

hasAvailableSeats(trip, seats) == trip.totalSeats - trip.bookedSeats >= seats

\* booking.calculateRefund(): a pure function of the booking; here the amount
\* paid is refunded in full and an unpaid booking refunds nothing.
calculateRefund(b) == IF b.paymentStatus = "paid" THEN b.totalAmount ELSE 0

NewBooking(tid, u, seats, amount) ==
    [trip |-> tid, passenger |-> u, seatsBooked |-> seats, totalAmount |-> amount,
     paymentStatus |-> "pending", bookingStatus |-> "pending",
     transactionId |-> NoTx,
     otp |-> [code |-> "", generatedAt |-> NoTime, verified |-> FALSE],
     rating |-> [forDriver |-> 0, forPassenger |-> 0],
     driverContact |-> NoContact, passengerContact |-> NoContact,
     cancellationReason |-> NoReason, cancelledBy |-> NoUser,
     cancelledAt |-> NoTime, refundAmount |-> 0]

generateOTP(b, code, t) ==
    [b EXCEPT !.otp = [code |-> code, generatedAt |-> t, verified |-> FALSE]]

----------------------------------------------------------------------------
Init ==
    /\ bookings = <<>>
    /\ trips = [t \in TripIds |->
                  IF t = "t1"
                  THEN [status |-> "active", driver |-> "u1",
                        totalSeats |-> TotalSeats, bookedSeats |-> 0,
                        pricePerSeat |-> PricePerSeat, totalEarnings |-> 0,
                        passengers |-> <<>>]
                  ELSE [status |-> "cancelled", driver |-> "u2",
                        totalSeats |-> TotalSeats, bookedSeats |-> 0,
                        pricePerSeat |-> PricePerSeat, totalEarnings |-> 0,
                        passengers |-> <<>>]]
    /\ users = [u \in Users |->
                  IF u = "u1"
                  THEN [average |-> Frac(4, 1), count |-> 2]
                  ELSE [average |-> Frac(0, 1), count |-> 0]]
    /\ now = 0
    /\ inflight = [p \in Requests |-> IdleRequest]

----------------------------------------------------------------------------
(* POST / : create a booking *)

CreateValid(seats, details, fieldsOk) ==
    /\ seats >= MinSeatsBooked /\ seats <= MaxSeatsBooked
    /\ details >= MinPassengerDetails
    /\ fieldsOk

CreateCheckMissingDriver(u, tid, seats, details) ==
    IF tid \notin DOMAIN trips THEN Resp(404, "Trip not found")
    ELSE IF trips[tid].status # "active"
         THEN Resp(400, "Trip is not available for booking")
    ELSE IF ~hasAvailableSeats(trips[tid], seats)
         THEN Resp(400, "Not enough seats available")
    ELSE IF details # seats
         THEN Resp(400, "Passenger details count must match seats booked")
    ELSE Resp(201, "Booking created successfully")

CreateCheckMissingSeats(u, tid, seats, details) ==
    IF tid \notin DOMAIN trips THEN Resp(404, "Trip not found")
    ELSE IF trips[tid].status # "active"
         THEN Resp(400, "Trip is not available for booking")
    ELSE IF trips[tid].driver = u
         THEN Resp(400, "You cannot book your own trip")
    ELSE IF details # seats
         THEN Resp(400, "Passenger details count must match seats booked")
    ELSE Resp(201, "Booking created successfully")

CreateCheckDetailsFirst(u, tid, seats, details) ==
    IF tid \notin DOMAIN trips THEN Resp(404, "Trip not found")
    ELSE IF trips[tid].status # "active"
         THEN Resp(400, "Trip is not available for booking")
    ELSE IF trips[tid].driver = u
         THEN Resp(400, "You cannot book your own trip")
    ELSE IF details # seats
         THEN Resp(400, "Passenger details count must match seats booked")
    ELSE IF ~hasAvailableSeats(trips[tid], seats)
         THEN Resp(400, "Not enough seats available")
    ELSE Resp(201, "Booking created successfully")

\* The checks of the handler, in its order; the response they lead to.
CreateCheck(u, tid, seats, details) ==
    IF tid \notin DOMAIN trips THEN Resp(404, "Trip not found")
    ELSE IF trips[tid].status # "active"
         THEN Resp(400, "Trip is not available for booking")
    ELSE IF trips[tid].driver = u
         THEN Resp(400, "You cannot book your own trip")
    ELSE IF ~hasAvailableSeats(trips[tid], seats)
         THEN Resp(400, "Not enough seats available")
    ELSE IF details # seats
         THEN Resp(400, "Passenger details count must match seats booked")
    ELSE Resp(201, "Booking created successfully")

\* trip.bookedSeats += ...; trip.passengers.push(...); trip.totalEarnings += ...
CreateTripUpdate(trip, u, seats, amount, t) ==
    [trip EXCEPT !.bookedSeats = @ + seats,
                 !.passengers = Append(@, [user |-> u, seatsBooked |-> seats,
                                           bookingDate |-> t]),
                 !.totalEarnings = @ + amount]


CreateResponse(u, body) ==
    IF ~CreateValid(body.seatsBooked, body.details, body.fieldsOk)
    THEN ValidationErrors
    ELSE CreateCheck(u, body.tripId, body.seatsBooked, body.details)

\* line 54
CreateAmount(body) == trips[body.tripId].pricePerSeat * body.seatsBooked

\* lines 57-69, 83-84: the Booking collection after the request
CreateBookings(u, body, code) ==
    IF CreateResponse(u, body).status # 201 THEN bookings
    ELSE Append(bookings,
                generateOTP(NewBooking(body.tripId, u, body.seatsBooked,
                                       CreateAmount(body)), code, now))

\* lines 71-80: the Trip collection after the request
CreateTrips(u, body) ==
    IF CreateResponse(u, body).status # 201 THEN trips
    ELSE [trips EXCEPT ![body.tripId] =
            CreateTripUpdate(@, u, body.seatsBooked, CreateAmount(body), now)]

CreateBooking(u, body) ==
    /\ Len(bookings) < MaxBookings
    /\ \E code \in OtpCodes : bookings' = CreateBookings(u, body, code)
    /\ trips' = CreateTrips(u, body)
    /\ UNCHANGED <<users, now>>

----------------------------------------------------------------------------
(* PATCH /:id/payment : update the payment status *)

PaymentValid(body) ==
    /\ body.paymentStatus \in {"paid", "failed"}
    /\ body.transactionId # ""

PaymentAuthorizedAnyone(b, u) == TRUE

\* line 142
PaymentAuthorized(b, u) == b.passenger = u

PaymentResponse(u, bid, body) ==
    IF ~PaymentValid(body) THEN ValidationErrors
    ELSE IF bid \notin DOMAIN bookings THEN Resp(404, "Booking not found")
    ELSE IF ~PaymentAuthorized(bookings[bid], u)
    THEN Resp(403, "Not authorized to update this booking")
    ELSE Resp(200, "Payment status updated successfully")

PaymentBookingUpdateKeepsStatus(b, body) ==
    IF body.paymentStatus = "paid" /\ body.transactionId # NoTx
    THEN [b EXCEPT !.paymentStatus = body.paymentStatus,
                   !.transactionId = body.transactionId]
    ELSE [b EXCEPT !.paymentStatus = body.paymentStatus]

\* lines 147-152: the fields of the booking the update sets
PaymentBookingUpdate(b, body) ==
    IF body.paymentStatus = "paid" /\ body.transactionId # NoTx
    THEN [b EXCEPT !.paymentStatus = body.paymentStatus,
                   !.transactionId = body.transactionId,
                   !.bookingStatus = "confirmed"]
    ELSE IF body.paymentStatus = "failed"
    THEN [b EXCEPT !.paymentStatus = body.paymentStatus,
                   !.bookingStatus = "cancelled"]
    ELSE [b EXCEPT !.paymentStatus = body.paymentStatus]

\* lines 148, 151: the branch that releases the seats
PaymentReleases(body) ==
    /\ ~(body.paymentStatus = "paid" /\ body.transactionId # NoTx)
    /\ body.paymentStatus = "failed"

\* lines 157-159: release the seats back to the trip
PaymentRelease(trip, b, u) ==
    [trip EXCEPT !.bookedSeats = @ - b.seatsBooked,
                 !.totalEarnings = @ - b.totalAmount,
                 !.passengers = SelectSeq(@, LAMBDA p : p.user # u)]

\* lines 147-152, 164: the Booking collection after the request
PaymentBookings(u, bid, body) ==
    IF PaymentResponse(u, bid, body).status # 200 THEN bookings
    ELSE [bookings EXCEPT ![bid] = PaymentBookingUpdate(@, body)]

\* lines 155-161: the Trip collection after the request
PaymentTrips(u, bid, body) ==
    IF PaymentResponse(u, bid, body).status # 200 THEN trips
    ELSE IF PaymentReleases(body) /\ bookings[bid].trip \in DOMAIN trips
    THEN [trips EXCEPT ![bookings[bid].trip] = PaymentRelease(@, bookings[bid], u)]
    ELSE trips

\* Releasing one booking again and again lowers bookedSeats without end; the
\* model follows a trip's bookedSeats down to -MaxDeficit and no further.
WithinDeficit(newTrips) ==
    \A t \in DOMAIN newTrips : newTrips[t].bookedSeats >= -MaxDeficit

UpdatePayment(u, bid, body) ==
    /\ WithinDeficit(PaymentTrips(u, bid, body))
    /\ bookings' = PaymentBookings(u, bid, body)
    /\ trips' = PaymentTrips(u, bid, body)
    /\ UNCHANGED <<users, now>>

----------------------------------------------------------------------------
(* PATCH /:id/cancel : cancel a booking *)

\* line 185
CancelAuthorized(b, u) == b.passenger = u

AlreadyCancelledNever(b) == FALSE

\* line 189
AlreadyCancelled(b) == b.bookingStatus = "cancelled"

CancelResponse(u, bid) ==
    IF bid \notin DOMAIN bookings THEN Resp(404, "Booking not found")
    ELSE IF ~CancelAuthorized(bookings[bid], u)
    THEN Resp(403, "Not authorized to cancel this booking")
    ELSE IF AlreadyCancelled(bookings[bid])
    THEN Resp(400, "Booking is already cancelled")
    ELSE Resp(200, "Booking cancelled successfully")

\* lines 194-201
CancelBookingUpdate(b, u, reason, t) ==
    [b EXCEPT !.bookingStatus = "cancelled",
              !.cancellationReason = reason,
              !.cancelledBy = u,
              !.cancelledAt = t,
              !.refundAmount = calculateRefund(b)]

CancelReleaseKeepsEarnings(trip, b, u) ==
    [trip EXCEPT !.bookedSeats = @ - b.seatsBooked,
                 !.passengers = SelectSeq(@, LAMBDA p : p.user # u)]

\* lines 208-210
CancelRelease(trip, b, u) ==
    [trip EXCEPT !.bookedSeats = @ - b.seatsBooked,
                 !.totalEarnings = @ - b.totalAmount,
                 !.passengers = SelectSeq(@, LAMBDA p : p.user # u)]

\* lines 194-203: the Booking collection after the request
CancelBookings(u, bid, reason) ==
    IF CancelResponse(u, bid).status # 200 THEN bookings
    ELSE [bookings EXCEPT ![bid] = CancelBookingUpdate(@, u, reason, now)]

\* lines 206-212: the Trip collection after the request
CancelTrips(u, bid) ==
    IF CancelResponse(u, bid).status # 200 THEN trips
    ELSE IF bookings[bid].trip \in DOMAIN trips
    THEN [trips EXCEPT ![bookings[bid].trip] = CancelRelease(@, bookings[bid], u)]
    ELSE trips

CancelBooking(u, bid, reason) ==
    /\ WithinDeficit(CancelTrips(u, bid))
    /\ bookings' = CancelBookings(u, bid, reason)
    /\ trips' = CancelTrips(u, bid)
    /\ UNCHANGED <<users, now>>

----------------------------------------------------------------------------
(* POST /:id/verify-otp *)

VerifyValid(otp) == OtpDigits(otp) = OtpLength

\* lines 242-247: the passenger, or the driver of the booking's trip
VerifyAuthorized(b, u) ==
    \/ b.passenger = u
    \/ (b.trip \in DOMAIN trips /\ trips[b.trip].driver = u)

OtpExpiredAtLimit(b, t) == t - b.otp.generatedAt >= OtpValidMinutes * MsPerMinute

\* lines 255-256: otpAge = (now - generatedAt) / (1000 * 60); otpAge > 30.
\* The division is by a positive constant, so otpAge > 30 is the comparison
\* below on the milliseconds.
OtpExpired(b, t) == t - b.otp.generatedAt > OtpValidMinutes * MsPerMinute

\* lines 250-258
VerifyCheck(b, otp, t) ==
    IF b.otp.code # otp THEN Resp(400, "Invalid OTP")
    ELSE IF OtpExpired(b, t) THEN Resp(400, "OTP has expired")
    ELSE Resp(200, "OTP verified successfully")

VerifyResponse(u, bid, otp) ==
    IF ~VerifyValid(otp) THEN ValidationErrors
    ELSE IF bid \notin DOMAIN bookings THEN Resp(404, "Booking not found")
    ELSE IF ~VerifyAuthorized(bookings[bid], u)
    THEN Resp(403, "Not authorized to verify this booking")
    ELSE VerifyCheck(bookings[bid], otp, now)

\* lines 261-262
VerifyBookingUpdate(b) ==
    [b EXCEPT !.otp.verified = TRUE, !.bookingStatus = "confirmed"]

\* lines 260-263: the Booking collection after the request
VerifyBookings(u, bid, otp) ==
    IF VerifyResponse(u, bid, otp).status # 200 THEN bookings
    ELSE [bookings EXCEPT ![bid] = VerifyBookingUpdate(@)]

VerifyOtp(u, bid, otp) ==
    /\ bookings' = VerifyBookings(u, bid, otp)
    /\ UNCHANGED <<trips, users, now>>

----------------------------------------------------------------------------
(* POST /:id/share-contact *)

\* lines 287, 297: the role of the caller on this booking
ShareRole(b, u) ==
    IF b.passenger = u THEN "passenger"
    ELSE IF trips[b.trip].driver = u THEN "driver"
    ELSE "none"

\* lines 289-292, 299-302: name and phone of a user
ContactOf(u) == [name |-> UserName(u), phone |-> UserPhone(u)]

\* lines 293-296, 303-306
Shared(info, t) == [name |-> info.name, phone |-> info.phone, sharedAt |-> t]

ShareResponse(u, bid) ==
    IF bid \notin DOMAIN bookings THEN Resp(404, "Booking not found")
    ELSE LET b == bookings[bid]
             role == ShareRole(b, u)
         IN IF role = "passenger"
            THEN [status |-> 200, message |-> "Contact details shared successfully",
                  contact |-> ContactOf(trips[b.trip].driver)]
            ELSE IF role = "driver"
            THEN [status |-> 200, message |-> "Contact details shared successfully",
                  contact |-> ContactOf(b.passenger)]
            ELSE Resp(403, "Not authorized to access contact details")

\* lines 293-296, 303-306, 311: the Booking collection after the request
ShareBookings(u, bid) ==
    LET r == ShareResponse(u, bid) IN
    IF r.status # 200 THEN bookings
    ELSE IF ShareRole(bookings[bid], u) = "passenger"
    THEN [bookings EXCEPT ![bid].driverContact = Shared(r.contact, now)]
    ELSE [bookings EXCEPT ![bid].passengerContact = Shared(r.contact, now)]

ShareContact(u, bid) ==
    /\ bookings' = ShareBookings(u, bid)
    /\ UNCHANGED <<trips, users, now>>

----------------------------------------------------------------------------
(* POST /:id/rate *)

RateValid(rating) == rating.value >= MinRating /\ rating.value <= MaxRating

\* lines 347, 366
RateRole(b, u) ==
    IF b.passenger = u THEN "passenger"
    ELSE IF trips[b.trip].driver = u THEN "driver"
    ELSE "none"

RateableAlways(b) == TRUE

\* line 340
Rateable(b) == b.bookingStatus = "completed"

DriverRatedNever(b) == FALSE

\* lines 349, 368: `if (booking.rating.forX.rating)`; a rating never set is
\* undefined, and one that passed the validator is 1..5, so truthy
DriverRated(b) == b.rating.forDriver # 0

PassengerRated(b) == b.rating.forPassenger # 0

\* x + rating of JavaScript, x a number: the sum when rating is a number;
\* when rating is a string, the digits of x followed by the string, which the
\* division that follows reads back as a number.  (average * count is the
\* whole number of points received, so x is written without a fraction.)
JsPlus(x, rating) ==
    IF ~rating.text THEN Frac(x.num + rating.value * x.den, x.den)
    ELSE CASE x.den = 1 /\ x.num >= 0 -> Frac(x.num * 10 + rating.value, 1)

\* lines 359-362 and 378-381: the streaming mean, in exact fractions
UpdateUserRating(r, rating) ==
    LET newCount == r.count + 1
        sum == JsPlus(Frac(r.average.num * r.count, r.average.den), rating)
    IN [average |-> Frac(sum.num, sum.den * newCount),
        count |-> newCount]

RateResponse(u, bid, rating) ==
    IF ~RateValid(rating) THEN ValidationErrors
    ELSE IF bid \notin DOMAIN bookings THEN Resp(404, "Booking not found")
    ELSE IF ~Rateable(bookings[bid])
    THEN Resp(400, "Can only rate completed bookings")
    ELSE LET b == bookings[bid]
             role == RateRole(b, u)
         IN IF role = "passenger"
            THEN IF DriverRated(b)
                 THEN Resp(400, "You have already rated this driver")
                 ELSE Resp(200, "Rating submitted successfully")
            ELSE IF role = "driver"
            THEN IF PassengerRated(b)
                 THEN Resp(400, "You have already rated this passenger")
                 ELSE Resp(200, "Rating submitted successfully")
            ELSE Resp(403, "Not authorized to rate this booking")

\* lines 353, 372, 389: the Booking collection after the request
RateBookings(u, bid, rating) ==
    IF RateResponse(u, bid, rating).status # 200 THEN bookings
    ELSE IF RateRole(bookings[bid], u) = "passenger"
    THEN [bookings EXCEPT ![bid].rating.forDriver = rating.value]
    ELSE [bookings EXCEPT ![bid].rating.forPassenger = rating.value]

\* lines 355-364, 374-383: the User collection after the request
RateUsers(u, bid, rating) ==
    IF RateResponse(u, bid, rating).status # 200 THEN users
    ELSE IF RateRole(bookings[bid], u) = "passenger"
    THEN [users EXCEPT ![trips[bookings[bid].trip].driver] =
            UpdateUserRating(@, rating)]
    ELSE [users EXCEPT ![bookings[bid].passenger] = UpdateUserRating(@, rating)]

RateBooking(u, bid, rating) ==
    /\ bookings' = RateBookings(u, bid, rating)
    /\ users' = RateUsers(u, bid, rating)
    /\ UNCHANGED <<trips, now>>

----------------------------------------------------------------------------
(* GET /user/bookings : the caller's bookings, a page at a time *)

NoParam == -1                           \* page or limit absent from the query
NoStatus == ""                          \* status absent from the query (falsy)
DefaultPage == 1                        \* const { page = 1, limit = 10, status }
DefaultLimit == 10

ListQuery(page, limit, status) == [page |-> page, limit |-> limit, status |-> status]

\* The queries the model sends.  The handler has no validator, so limit=0
\* reaches it as any other number does.
ListQueries ==
    {ListQuery(p, l, s) : p \in {NoParam, 1, 2, 3}, l \in {NoParam, 0, 1, 2},
                          s \in {NoStatus, "pending", "cancelled"}}

ListPage(q) == IF q.page = NoParam THEN DefaultPage ELSE q.page
ListLimit(q) == IF q.limit = NoParam THEN DefaultLimit ELSE q.limit

\* lines 402-405: query = { passenger: req.user.id [, bookingStatus: status] }
ListMatches(b, u, status) ==
    /\ b.passenger = u
    /\ (status # NoStatus => b.bookingStatus = status)

\* Booking.find(query).sort({ createdAt: -1 }): the ids of the matching
\* bookings among the first i, the last created first (bookings are kept in
\* creation order and the clock never runs backwards).
RECURSIVE FindSorted(_, _, _)
FindSorted(u, status, i) ==
    IF i = 0 THEN <<>>
    ELSE (IF ListMatches(bookings[i], u, status) THEN <<i>> ELSE <<>>)
         \o FindSorted(u, status, i - 1)

\* cursor.skip(k), k >= 0
SkipDocs(docs, k) == SubSeq(docs, k + 1, Len(docs))

\* cursor.limit(n), n >= 0: a limit of 0 is no limit
LimitDocs(docs, n) ==
    IF n = 0 \/ n >= Len(docs) THEN docs ELSE SubSeq(docs, 1, n)

\* Math.ceil(total / limit) as res.json writes it: a division by zero gives
\* Infinity (or NaN for 0 / 0), and both are written as null
CeilDiv(total, limit) ==
    IF limit = 0 THEN [null |-> TRUE, value |-> 0]
    ELSE [null |-> FALSE, value |-> (total + limit - 1) \div limit]

\* lines 407-420
ListResponse(u, q) ==
    LET found == FindSorted(u, q.status, Len(bookings))
        total == Len(found)
    IN [status |-> 200,
        bookings |-> LimitDocs(SkipDocs(found, (ListPage(q) - 1) * ListLimit(q)),
                               ListLimit(q) * 1),
        totalPages |-> CeilDiv(total, ListLimit(q)),
        currentPage |-> ListPage(q),
        total |-> total]

\* The handler writes nothing.
ListBookings(u, q) ==
    /\ ListResponse(u, q).status = 200
    /\ UNCHANGED vars

----------------------------------------------------------------------------
(* The handlers step by step.  A handler is a chain of awaits: it loads    *)
(* its documents, works on its own copies, and saves them one after the    *)
(* other; between two awaits the server runs other requests.  inflight[p]  *)
(* holds the copies and the position of request p.                         *)

ServerError == Resp(500, "Server error")

Answer(p, r) == [inflight EXCEPT ![p].pc = "done", ![p].resp = r]

\* The requests that have passed the checks of POST / and saved no booking yet.
CreatesChecked ==
    {q \in Requests : inflight[q].op = "create" /\ inflight[q].pc = "checked"}

\* POST /, lines 20-51: validate, load the trip, check it.  findById is the
\* only await; the checks run on the copy it returned.
CreateLoad(p, u, body) ==
    /\ inflight[p].pc = "idle"
    /\ Len(bookings) + Cardinality(CreatesChecked) < MaxBookings
    /\ LET r == CreateResponse(u, body) IN
       inflight' = [inflight EXCEPT ![p] =
          IF r.status # 201
          THEN [IdleRequest EXCEPT !.pc = "done", !.op = "create", !.user = u,
                                   !.body = body, !.resp = r,
                                   !.trip = IF r = ValidationErrors
                                               \/ body.tripId \notin DOMAIN trips
                                            THEN NoDoc ELSE trips[body.tripId]]
          ELSE [IdleRequest EXCEPT !.pc = "checked", !.op = "create",
                                   !.user = u, !.body = body,
                                   !.trip = trips[body.tripId]]]
    /\ UNCHANGED <<bookings, trips, users, now>>

\* The status lines 28-51 lead to on a copy of the trip: 201 if every check
\* passes.
CreateCheckOn(trip, u, body) ==
    IF trip.status # "active" \/ trip.driver = u
       \/ ~hasAvailableSeats(trip, body.seatsBooked)
       \/ body.details # body.seatsBooked
    THEN 400 ELSE 201

\* lines 54-69: totalAmount from the copy; new Booking; booking.save()
CreateSaveBooking(p) ==
    LET r == inflight[p] IN
    /\ r.pc = "checked" /\ r.op = "create"
    /\ bookings' = Append(bookings,
                          NewBooking(r.body.tripId, r.user, r.body.seatsBooked,
                                     r.trip.pricePerSeat * r.body.seatsBooked))
    /\ inflight' = [inflight EXCEPT ![p].pc = "bookingSaved",
                                    ![p].bid = Len(bookings) + 1]
    /\ UNCHANGED <<trips, users, now>>

SavedTripAdds(stored, copy, doc, roster) ==
    [stored EXCEPT !.bookedSeats = @ + (doc.bookedSeats - copy.bookedSeats),
                   !.totalEarnings = @ + (doc.totalEarnings - copy.totalEarnings),
                   !.passengers = roster]

\* trip.save(): the fields the handler assigned on its copy are written over
\* the stored document.
SavedTrip(stored, copy, doc, roster) ==
    [stored EXCEPT !.bookedSeats = doc.bookedSeats,
                   !.totalEarnings = doc.totalEarnings,
                   !.passengers = roster]

\* lines 72-80: update the copy, trip.save().  The pushed roster entry is
\* written either with the whole roster of the copy or onto the stored
\* roster, as the client library chooses; both are followed.
CreateSaveTrip(p) ==
    LET r == inflight[p]
        tid == r.body.tripId
        seats == r.body.seatsBooked
        doc == CreateTripUpdate(r.trip, r.user, seats,
                                r.trip.pricePerSeat * seats, now)
        entry == doc.passengers[Len(doc.passengers)]
    IN /\ r.pc = "bookingSaved" /\ r.op = "create"
       /\ \E roster \in {doc.passengers, Append(trips[tid].passengers, entry)} :
             trips' = [trips EXCEPT ![tid] = SavedTrip(@, r.trip, doc, roster)]
       /\ inflight' = [inflight EXCEPT ![p].pc = "tripSaved"]
       /\ UNCHANGED <<bookings, users, now>>

\* lines 83-94: generateOTP, booking.save(), the response
CreateFinish(p) ==
    LET r == inflight[p] IN
    /\ r.pc = "tripSaved" /\ r.op = "create"
    /\ \E code \in OtpCodes :
          bookings' = [bookings EXCEPT ![r.bid] = generateOTP(@, code, now)]
    /\ inflight' = Answer(p, Resp(201, "Booking created successfully"))
    /\ UNCHANGED <<trips, users, now>>

RateBody(bid, rating) == [bid |-> bid, rating |-> rating]

\* lines 357, 376: the user a rating by u on booking b goes to
RateTarget(b, u) ==
    IF RateRole(b, u) = "passenger" THEN trips[b.trip].driver ELSE b.passenger

\* POST /:id/rate, lines 328-353, 366-372: validate, load the booking (and
\* its trip, which no request here changes), check the copy, set the rating
\* on the copy.
RateLoad(p, u, bid, rating) ==
    /\ inflight[p].pc = "idle"
    /\ LET r == RateResponse(u, bid, rating) IN
       inflight' = [inflight EXCEPT ![p] =
          IF r.status # 200
          THEN [IdleRequest EXCEPT !.pc = "done", !.op = "rate", !.resp = r]
          ELSE [IdleRequest EXCEPT !.pc = "checked", !.op = "rate", !.user = u,
                                   !.body = RateBody(bid, rating),
                                   !.booking = bookings[bid], !.bid = bid]]
    /\ UNCHANGED <<bookings, trips, users, now>>

\* lines 357, 376: User.findById
RateLoadUser(p) ==
    LET r == inflight[p] IN
    /\ r.pc = "checked" /\ r.op = "rate"
    /\ inflight' = [inflight EXCEPT ![p].pc = "userLoaded",
                                    ![p].target = users[RateTarget(r.booking, r.user)]]
    /\ UNCHANGED <<bookings, trips, users, now>>

\* lines 358-363, 377-382: the new count and average from the copy; save()
RateSaveUser(p) ==
    LET r == inflight[p] IN
    /\ r.pc = "userLoaded"
    /\ users' = [users EXCEPT ![RateTarget(r.booking, r.user)] =
                    UpdateUserRating(r.target, r.body.rating)]
    /\ inflight' = [inflight EXCEPT ![p].pc = "userSaved"]
    /\ UNCHANGED <<bookings, trips, now>>

\* lines 389-391: booking.save() writes the rating set on the copy; response
RateFinish(p) ==
    LET r == inflight[p] IN
    /\ r.pc = "userSaved"
    /\ bookings' =
          IF RateRole(r.booking, r.user) = "passenger"
          THEN [bookings EXCEPT ![r.bid].rating.forDriver = r.body.rating.value]
          ELSE [bookings EXCEPT ![r.bid].rating.forPassenger = r.body.rating.value]
    /\ inflight' = Answer(p, Resp(200, "Rating submitted successfully"))
    /\ UNCHANGED <<trips, users, now>>

CancelBody(bid, reason) == [bid |-> bid, reason |-> reason]

\* PATCH /:id/cancel, lines 177-201: load the booking, check it, update the
\* copy.
CancelLoad(p, u, bid, reason) ==
    /\ inflight[p].pc = "idle"
    /\ LET r == CancelResponse(u, bid) IN
       inflight' = [inflight EXCEPT ![p] =
          IF r.status # 200
          THEN [IdleRequest EXCEPT !.pc = "done", !.op = "cancel", !.resp = r]
          ELSE [IdleRequest EXCEPT
                   !.pc = "checked", !.op = "cancel", !.user = u,
                   !.body = CancelBody(bid, reason), !.bid = bid,
                   !.booking = CancelBookingUpdate(bookings[bid], u, reason, now)]]
    /\ UNCHANGED <<bookings, trips, users, now>>

\* line 203: booking.save() writes the fields the handler assigned
CancelSaveBooking(p) ==
    LET r == inflight[p] IN
    /\ r.pc = "checked" /\ r.op = "cancel"
    /\ bookings' = [bookings EXCEPT ![r.bid] =
          [@ EXCEPT !.bookingStatus = r.booking.bookingStatus,
                    !.cancellationReason = r.booking.cancellationReason,
                    !.cancelledBy = r.booking.cancelledBy,
                    !.cancelledAt = r.booking.cancelledAt,
                    !.refundAmount = r.booking.refundAmount]]
    /\ inflight' = [inflight EXCEPT ![p].pc = "bookingSaved"]
    /\ UNCHANGED <<trips, users, now>>

\* lines 206-207: Trip.findById, if (trip)
CancelLoadTrip(p) ==
    LET r == inflight[p] IN
    /\ r.pc = "bookingSaved" /\ r.op = "cancel"
    /\ r.booking.trip \in DOMAIN trips
    /\ inflight' = [inflight EXCEPT ![p].pc = "tripLoaded",
                                    ![p].trip = trips[r.booking.trip]]
    /\ UNCHANGED <<bookings, trips, users, now>>

\* lines 208-218: release the seats on the copy, trip.save(), the response
CancelSaveTrip(p) ==
    LET r == inflight[p]
        doc == CancelRelease(r.trip, r.booking, r.user)
    IN /\ r.pc = "tripLoaded"
       /\ trips' = [trips EXCEPT ![r.booking.trip] =
                       SavedTrip(@, r.trip, doc, doc.passengers)]
       /\ inflight' = Answer(p, Resp(200, "Booking cancelled successfully"))
       /\ UNCHANGED <<bookings, users, now>>

\* The request stands at a trip.save(): line 80 of create, line 211 of cancel.
AtTripSave(r) ==
    \/ (r.op = "create" /\ r.pc = "bookingSaved")
    \/ (r.op = "cancel" /\ r.pc = "tripLoaded")

BookingsAfterFailureRolledBack(p) ==
    IF inflight[p].op = "create"
    THEN SubSeq(bookings, 1, inflight[p].bid - 1)
         \o SubSeq(bookings, inflight[p].bid + 1, Len(bookings))
    ELSE [bookings EXCEPT ![inflight[p].bid].bookingStatus = "pending"]

\* lines 95-97, 219-221: the catch block answers 500 and writes nothing
BookingsAfterFailure(p) == bookings

\* trip.save() throws (the store is down, the document fails validation):
\* the handler's catch block runs.
TripSaveFails(p) ==
    /\ AtTripSave(inflight[p])
    /\ bookings' = BookingsAfterFailure(p)
    /\ inflight' = Answer(p, ServerError)
    /\ UNCHANGED <<trips, users, now>>

\* The response has been sent; the request is over.
RequestEnds(p) ==
    /\ inflight[p].pc = "done"
    /\ inflight' = [inflight EXCEPT ![p] = IdleRequest]
    /\ UNCHANGED <<bookings, trips, users, now>>

----------------------------------------------------------------------------
(* The environment: a confirmed booking is completed when its trip has     *)
(* been driven (outside these routes), and time passes.                    *)

CompleteBooking(bid) ==
    /\ bid \in DOMAIN bookings
    /\ bookings[bid].bookingStatus = "confirmed"
    /\ bookings' = [bookings EXCEPT ![bid].bookingStatus = "completed"]
    /\ UNCHANGED <<trips, users, now>>

Tick(d) ==
    /\ now + d <= OtpValidMinutes * MsPerMinute + MaxExtraMs
    /\ now' = now + d
    /\ UNCHANGED <<bookings, trips, users>>

----------------------------------------------------------------------------
(* Specifications.  Spec runs every handler against every booking; its    *)
(* state space is the product of everything below and is not explored in   *)
(* full.  The others run the handlers a group of properties is about, so   *)
(* that each is explored in full: the seat accounting of a trip            *)
(* (SpecSeats), the OTP and its clock (SpecOtp), ratings (SpecRate), and   *)
(* every handler around one booking, with the clock at rest (SpecOne),     *)
(* the listing (SpecList), and the step-by-step handlers: interleaved      *)
(* creates (SpecCreateRace), interleaved ratings (SpecRateRace), and a     *)
(* trip.save() that may throw (SpecFail).                                  *)

Create ==
    \E u \in Users, body \in CreateBodies :
        CreateBooking(u, body) /\ UNCHANGED inflight

CreateOne ==
    \E u \in Users, body \in CreateBodies :
        bookings = <<>> /\ CreateBooking(u, body) /\ UNCHANGED inflight

Payment ==
    \E u \in Users, bid \in BookingIds, body \in PaymentBodies :
        UpdatePayment(u, bid, body) /\ UNCHANGED inflight

Cancel ==
    \E u \in Users, bid \in BookingIds, reason \in Reasons :
        CancelBooking(u, bid, reason) /\ UNCHANGED inflight

Verify ==
    \E u \in Users, bid \in BookingIds, otp \in SubmittedOtps :
        VerifyOtp(u, bid, otp) /\ UNCHANGED inflight

Share ==
    \E u \in Users, bid \in BookingIds :
        ShareContact(u, bid) /\ UNCHANGED inflight

Rate ==
    \E u \in Users, bid \in BookingIds, rating \in RatingRequests :
        RateBooking(u, bid, rating) /\ UNCHANGED inflight

Complete == \E bid \in BookingIds : CompleteBooking(bid) /\ UNCHANGED inflight

Clock == \E d \in TickSteps : Tick(d) /\ UNCHANGED inflight

Next ==
    \/ Create
    \/ Payment
    \/ Cancel
    \/ Verify
    \/ Share
    \/ Rate
    \/ Complete
    \/ Clock

Spec == Init /\ [][Next]_vars

NextSeats ==
    \/ Create
    \/ Payment
    \/ Cancel

SpecSeats == Init /\ [][NextSeats]_vars

NextOtp ==
    \/ Create
    \/ Verify
    \/ Clock

SpecOtp == Init /\ [][NextOtp]_vars

NextRate ==
    \/ Create
    \/ Verify
    \/ Complete
    \/ Rate

SpecRate == Init /\ [][NextRate]_vars

NextOne ==
    \/ CreateOne
    \/ Payment
    \/ Cancel
    \/ Verify
    \/ Share
    \/ Rate
    \/ Complete

SpecOne == Init /\ [][NextOne]_vars

List == \E u \in Users, q \in ListQueries : ListBookings(u, q)

\* The listing, over the bookings that create, payment and cancel leave.
NextList ==
    \/ Create
    \/ Payment
    \/ Cancel
    \/ List

SpecList == Init /\ [][NextList]_vars

\* Create requests whose steps interleave.
NextCreateRace ==
    \/ \E p \in Requests, u \in Users, body \in CreateBodies : CreateLoad(p, u, body)
    \/ \E p \in Requests : CreateSaveBooking(p)
    \/ \E p \in Requests : CreateSaveTrip(p)
    \/ \E p \in Requests : CreateFinish(p)

SpecCreateRace == Init /\ [][NextCreateRace]_vars

\* Rate requests whose steps interleave, on one booking that has been
\* created, verified and completed.
NextRateRace ==
    \/ CreateOne
    \/ Verify
    \/ Complete
    \/ \E p \in Requests, u \in Users, bid \in BookingIds, rating \in RatingRequests :
          RateLoad(p, u, bid, rating)
    \/ \E p \in Requests : RateLoadUser(p)
    \/ \E p \in Requests : RateSaveUser(p)
    \/ \E p \in Requests : RateFinish(p)

SpecRateRace == Init /\ [][NextRateRace]_vars

\* Create and cancel requests, one at a time, whose trip.save() may fail.
Serving == {p \in Requests : inflight[p].pc # "idle"}

NextFail ==
    \/ \E p \in Requests, u \in Users, body \in CreateBodies :
          Serving = {} /\ CreateLoad(p, u, body)
    \/ \E p \in Requests : CreateSaveBooking(p)
    \/ \E p \in Requests : CreateSaveTrip(p)
    \/ \E p \in Requests : CreateFinish(p)
    \/ \E p \in Requests, u \in Users, bid \in BookingIds, reason \in Reasons :
          Serving = {} /\ CancelLoad(p, u, bid, reason)
    \/ \E p \in Requests : CancelSaveBooking(p)
    \/ \E p \in Requests : CancelLoadTrip(p)
    \/ \E p \in Requests : CancelSaveTrip(p)
    \/ \E p \in Requests : TripSaveFails(p)
    \/ \E p \in Requests : RequestEnds(p)

SpecFail == Init /\ [][NextFail]_vars

----------------------------------------------------------------------------
(* Properties *)

IsPassenger(b, u) == b.passenger = u
IsDriver(b, u) == trips[b.trip].driver = u
IsParty(b, u) == IsPassenger(b, u) \/ IsDriver(b, u)

Held(b, t) == b.trip = t /\ b.bookingStatus # "cancelled"

RECURSIVE SeatsHeldFrom(_, _)
SeatsHeldFrom(t, i) ==
    IF i > Len(bookings) THEN 0
    ELSE (IF Held(bookings[i], t) THEN bookings[i].seatsBooked ELSE 0)
         + SeatsHeldFrom(t, i + 1)

RECURSIVE AmountHeldFrom(_, _)
AmountHeldFrom(t, i) ==
    IF i > Len(bookings) THEN 0
    ELSE (IF Held(bookings[i], t) THEN bookings[i].totalAmount ELSE 0)
         + AmountHeldFrom(t, i + 1)

\* C1: for every trip, bookedSeats is the sum of seatsBooked, and
\* totalEarnings the sum of totalAmount, over the trip's bookings that are
\* not cancelled.
C1_SeatAccounting ==
    \A t \in TripIds :
        /\ trips[t].bookedSeats = SeatsHeldFrom(t, 1)
        /\ trips[t].totalEarnings = AmountHeldFrom(t, 1)

\* C2: in every reachable state of create, payment-update and cancel
\* requests, no trip has more booked seats than it has seats.
C2_Capacity == \A t \in TripIds : trips[t].bookedSeats <= trips[t].totalSeats

\* C2 witness: two bookings fill the trip to its last seat.
C2_Full ==
    /\ Len(bookings) = 2
    /\ \A i \in DOMAIN bookings : Held(bookings[i], "t1")
    /\ trips["t1"].bookedSeats = trips["t1"].totalSeats

\* C3: a create request that passes the validators is answered by the first
\* failing precondition in the order trip exists (404), trip active (400),
\* requester not the driver (400), enough remaining seats (400), one
\* passenger detail per seat (400); a request that fails one creates no
\* booking and leaves the trips as they were.
C3_Preconditions ==
    \A u \in Users, body \in CreateBodies :
        CreateValid(body.seatsBooked, body.details, body.fieldsOk) =>
        LET r == CreateResponse(u, body)
            exists == body.tripId \in TripIds
            trip == trips[body.tripId]
            active == trip.status = "active"
            notDriver == trip.driver # u
            seatsLeft == trip.totalSeats - trip.bookedSeats >= body.seatsBooked
            detailsMatch == body.details = body.seatsBooked
        IN /\ ~exists => r = Resp(404, "Trip not found")
           /\ (exists /\ ~active) =>
                 r = Resp(400, "Trip is not available for booking")
           /\ (exists /\ active /\ ~notDriver) =>
                 r = Resp(400, "You cannot book your own trip")
           /\ (exists /\ active /\ notDriver /\ ~seatsLeft) =>
                 r = Resp(400, "Not enough seats available")
           /\ (exists /\ active /\ notDriver /\ seatsLeft /\ ~detailsMatch) =>
                 r = Resp(400, "Passenger details count must match seats booked")
           /\ (exists /\ active /\ notDriver /\ seatsLeft /\ detailsMatch) =>
                 r.status = 201
           /\ r.status # 201 =>
                 /\ \A code \in OtpCodes : CreateBookings(u, body, code) = bookings
                 /\ CreateTrips(u, body) = trips

\* C3 witness: on a trip that holds a booking, a request fails the seats check
\* and the details check at once, and is answered by the seats check.
C3_SeatsBeforeDetails ==
    /\ trips["t1"].bookedSeats > 0
    /\ \E body \in CreateBodies :
          /\ body.tripId = "t1" /\ body.fieldsOk
          /\ body.details # body.seatsBooked
          /\ body.seatsBooked <= MaxSeatsBooked
          /\ trips["t1"].totalSeats - trips["t1"].bookedSeats < body.seatsBooked
          /\ CreateResponse("u3", body) = Resp(400, "Not enough seats available")

\* C4: a cancel that succeeds sets the booking's status to 'cancelled',
\* lowers the trip's bookedSeats by the booking's seatsBooked and its
\* totalEarnings by the booking's totalAmount, and changes no other booking.
C4_CancelReleases ==
    \A u \in Users, bid \in DOMAIN bookings, reason \in Reasons :
        CancelResponse(u, bid).status = 200 =>
        LET b == bookings[bid]
            after == CancelBookings(u, bid, reason)
            tripAfter == CancelTrips(u, bid)[b.trip]
        IN /\ IsPassenger(b, u)
           /\ after[bid].bookingStatus = "cancelled"
           /\ tripAfter.bookedSeats = trips[b.trip].bookedSeats - b.seatsBooked
           /\ tripAfter.totalEarnings = trips[b.trip].totalEarnings - b.totalAmount
           /\ Len(after) = Len(bookings)
           /\ \A j \in DOMAIN bookings : j # bid => after[j] = bookings[j]
           /\ \A t \in TripIds : t # b.trip => CancelTrips(u, bid)[t] = trips[t]

\* C4 witness: one of two bookings has been cancelled by its passenger.
C4_Cancelled ==
    /\ Len(bookings) = 2
    /\ \E i \in DOMAIN bookings :
          /\ bookings[i].bookingStatus = "cancelled"
          /\ bookings[i].cancelledBy = bookings[i].passenger
          /\ bookings[i].cancellationReason \in Reasons
    /\ \E j \in DOMAIN bookings : bookings[j].bookingStatus # "cancelled"

\* The roster without the entries of user u.
Others(roster, u) == SelectSeq(roster, LAMBDA p : p.user # u)

\* C5: a payment update by the booking's passenger with 'paid' and a
\* transaction id confirms the booking and stores the id, and leaves the
\* trips alone; with 'failed' it cancels the booking, lowers the trip's
\* bookedSeats by seatsBooked and totalEarnings by totalAmount, and leaves
\* no entry of the passenger on the trip's roster (the entries of the other
\* passengers stay, in their order).
C5_PaymentUpdate ==
    \A u \in Users, bid \in DOMAIN bookings, body \in PaymentBodies :
        (IsPassenger(bookings[bid], u) /\ PaymentValid(body)) =>
        LET b == bookings[bid]
            after == PaymentBookings(u, bid, body)
            tripAfter == PaymentTrips(u, bid, body)[b.trip]
        IN /\ PaymentResponse(u, bid, body).status = 200
           /\ after[bid].paymentStatus = body.paymentStatus
           /\ (body.paymentStatus = "paid" /\ body.transactionId # NoTx) =>
                 /\ after[bid].bookingStatus = "confirmed"
                 /\ after[bid].transactionId = body.transactionId
                 /\ PaymentTrips(u, bid, body) = trips
           /\ body.paymentStatus = "failed" =>
                 /\ after[bid].bookingStatus = "cancelled"
                 /\ tripAfter.bookedSeats = trips[b.trip].bookedSeats - b.seatsBooked
                 /\ tripAfter.totalEarnings =
                       trips[b.trip].totalEarnings - b.totalAmount
                 /\ \A k \in DOMAIN tripAfter.passengers :
                       tripAfter.passengers[k].user # u
                 /\ Others(tripAfter.passengers, u) =
                       Others(trips[b.trip].passengers, u)

\* C5 witness: one booking was confirmed by a paid update with a transaction
\* id, another cancelled by a failed one, its passenger gone from the roster.
C5_PaidAndFailed ==
    \E i, j \in DOMAIN bookings :
        /\ bookings[i].paymentStatus = "paid"
        /\ bookings[i].transactionId = "tx1"
        /\ bookings[i].bookingStatus = "confirmed"
        /\ bookings[j].paymentStatus = "failed"
        /\ bookings[j].bookingStatus = "cancelled"
        /\ bookings[j].cancelledBy = NoUser
        /\ bookings[i].passenger # bookings[j].passenger
        /\ Len(trips["t1"].passengers) = 1

\* C6: a verify-otp request by the booking's passenger or the trip's driver
\* succeeds if and only if the submitted code is the stored code and the OTP
\* is at most 30 minutes old; a success sets otp.verified and confirms the
\* booking, a failure leaves the bookings as they were.
C6_VerifyOtp ==
    \A u \in Users, bid \in DOMAIN bookings, otp \in SubmittedOtps :
        IsParty(bookings[bid], u) =>
        LET b == bookings[bid]
            r == VerifyResponse(u, bid, otp)
            after == VerifyBookings(u, bid, otp)
            fresh == now - b.otp.generatedAt <= OtpValidMinutes * MsPerMinute
        IN /\ r.status = 200 <=> (otp = b.otp.code /\ fresh)
           /\ r.status = 200 =>
                 /\ after[bid].otp.verified
                 /\ after[bid].bookingStatus = "confirmed"
                 /\ after[bid].otp.code = b.otp.code
                 /\ \A j \in DOMAIN bookings : j # bid => after[j] = bookings[j]
           /\ r.status # 200 => after = bookings

\* C6 witness: one booking has been verified and confirmed; the right code
\* for another, whose OTP is 30 minutes and a millisecond old, is answered
\* 'OTP has expired'.
C6_AtTheLimit ==
    \E i, j \in DOMAIN bookings :
        /\ bookings[i].otp.verified
        /\ bookings[i].bookingStatus = "confirmed"
        /\ ~bookings[j].otp.verified
        /\ now - bookings[j].otp.generatedAt = OtpValidMinutes * MsPerMinute + 1
        /\ VerifyResponse(bookings[j].passenger, j, bookings[j].otp.code)
              = Resp(400, "OTP has expired")

\* The ratings a user has received on the bookings: the directions set that
\* point at the user.
RECURSIVE RatingsReceivedFrom(_, _)
RatingsReceivedFrom(u, i) ==
    IF i > Len(bookings) THEN 0
    ELSE LET b == bookings[i] IN
         (IF IsDriver(b, u) /\ b.rating.forDriver # 0 THEN 1 ELSE 0)
         + (IF IsPassenger(b, u) /\ b.rating.forPassenger # 0 THEN 1 ELSE 0)
         + RatingsReceivedFrom(u, i + 1)

InitialCount(u) == IF u = "u1" THEN 2 ELSE 0

\* C7: a rating is accepted only on a completed booking and only in a
\* direction not rated yet; a request in a direction already rated is
\* rejected and changes neither the bookings nor the users; so a user's
\* count has grown by exactly one for each rated direction that points at
\* the user.
C7_RateOnce ==
    /\ \A u \in Users, bid \in DOMAIN bookings, rating \in RatingRequests :
          LET b == bookings[bid]
              r == RateResponse(u, bid, rating)
              rated == \/ (IsPassenger(b, u) /\ b.rating.forDriver # 0)
                       \/ (~IsPassenger(b, u) /\ IsDriver(b, u)
                             /\ b.rating.forPassenger # 0)
          IN /\ r.status = 200 => (b.bookingStatus = "completed" /\ ~rated)
             /\ rated =>
                   /\ r.status = 400
                   /\ RateBookings(u, bid, rating) = bookings
                   /\ RateUsers(u, bid, rating) = users
    /\ \A u \in Users : users[u].count = InitialCount(u) + RatingsReceivedFrom(u, 1)

\* C7 witness: a completed booking rated in both directions.
C7_RatedBothWays ==
    \E i \in DOMAIN bookings :
        /\ bookings[i].bookingStatus = "completed"
        /\ bookings[i].rating.forDriver # 0
        /\ bookings[i].rating.forPassenger # 0
        /\ RateResponse(bookings[i].passenger, i, Num(MaxRating))
              = Resp(400, "You have already rated this driver")

\* C8: a cancel request on a booking that is already cancelled is rejected,
\* with 400 when it comes from the booking's passenger, and leaves the
\* booking (cancelledAt, refundAmount, cancellationReason included) and the
\* trips (bookedSeats, totalEarnings, passengers) as they were.
C8_CancelTwice ==
    \A u \in Users, bid \in DOMAIN bookings, reason \in Reasons :
        bookings[bid].bookingStatus = "cancelled" =>
        /\ CancelResponse(u, bid).status \in {400, 403}
        /\ IsPassenger(bookings[bid], u) =>
              CancelResponse(u, bid) = Resp(400, "Booking is already cancelled")
        /\ CancelBookings(u, bid, reason) = bookings
        /\ CancelTrips(u, bid) = trips

\* C8 witness: a booking cancelled by its passenger, while another booking
\* of the same passenger is on the trip's roster.
C8_CancelledOnce ==
    \E i, j \in DOMAIN bookings :
        /\ bookings[i].bookingStatus = "cancelled"
        /\ bookings[i].cancelledBy = bookings[i].passenger
        /\ bookings[j].passenger = bookings[i].passenger
        /\ bookings[j].bookingStatus # "cancelled"
        /\ Len(trips[bookings[i].trip].passengers) > 0

\* C9: no booking's passenger is the driver of the booking's trip, and a
\* create request by the trip's driver is rejected and creates nothing.
C9_NoOwnTrip ==
    /\ \A i \in DOMAIN bookings : ~IsDriver(bookings[i], bookings[i].passenger)
    /\ \A body \in CreateBodies :
          body.tripId \in TripIds =>
          LET driver == trips[body.tripId].driver IN
          /\ CreateResponse(driver, body).status # 201
          /\ \A code \in OtpCodes : CreateBookings(driver, body, code) = bookings
          /\ CreateTrips(driver, body) = trips

\* C9 witness: the driver of one trip holds a booking on another trip, whose
\* own driver is refused a seat that is free.
C9_DriverRefused ==
    /\ \E i \in DOMAIN bookings :
          /\ bookings[i].passenger = trips["t2"].driver
          /\ bookings[i].trip = "t1"
    /\ trips["t1"].bookedSeats < trips["t1"].totalSeats
    /\ CreateResponse(trips["t1"].driver, CreateBody("t1", 1, 1, TRUE))
          = Resp(400, "You cannot book your own trip")

\* C10: a payment update or a cancel by anyone but the booking's passenger,
\* and a verify-otp, share-contact or rate by anyone but the passenger or
\* the trip's driver, is rejected and changes no booking, trip or user;
\* share-contact answers a third party with no contact, answers each party
\* with the other party's contact, and what a booking stores as shared
\* contact is the contact of its own driver and of its own passenger.
C10_Unauthorized ==
    /\ \A u \in Users, bid \in DOMAIN bookings :
          LET b == bookings[bid] IN
          /\ ~IsPassenger(b, u) =>
                /\ \A body \in PaymentBodies :
                      /\ PaymentResponse(u, bid, body).status \in {400, 403}
                      /\ PaymentValid(body) =>
                            PaymentResponse(u, bid, body).status = 403
                      /\ PaymentBookings(u, bid, body) = bookings
                      /\ PaymentTrips(u, bid, body) = trips
                /\ \A reason \in Reasons :
                      /\ CancelResponse(u, bid).status = 403
                      /\ CancelBookings(u, bid, reason) = bookings
                      /\ CancelTrips(u, bid) = trips
          /\ ~IsParty(b, u) =>
                /\ \A otp \in SubmittedOtps :
                      /\ VerifyResponse(u, bid, otp).status \in {400, 403}
                      /\ VerifyValid(otp) => VerifyResponse(u, bid, otp).status = 403
                      /\ VerifyBookings(u, bid, otp) = bookings
                /\ ShareResponse(u, bid).status = 403
                /\ ShareResponse(u, bid).contact = NoContactInfo
                /\ ShareBookings(u, bid) = bookings
                /\ \A rating \in RatingRequests :
                      /\ RateResponse(u, bid, rating).status \in {400, 403}
                      /\ RateBookings(u, bid, rating) = bookings
                      /\ RateUsers(u, bid, rating) = users
          /\ IsPassenger(b, u) =>
                ShareResponse(u, bid).contact = ContactOf(trips[b.trip].driver)
          /\ (IsDriver(b, u) /\ ~IsPassenger(b, u)) =>
                ShareResponse(u, bid).contact = ContactOf(b.passenger)
    /\ \A bid \in DOMAIN bookings :
          LET b == bookings[bid] IN
          /\ b.driverContact # NoContact =>
                /\ b.driverContact.name = UserName(trips[b.trip].driver)
                /\ b.driverContact.phone = UserPhone(trips[b.trip].driver)
          /\ b.passengerContact # NoContact =>
                /\ b.passengerContact.name = UserName(b.passenger)
                /\ b.passengerContact.phone = UserPhone(b.passenger)

\* C10 witness: a completed booking whose two parties have each been given
\* the other's contact, and a third user who is refused on every route.
C10_ThirdParty ==
    \E bid \in DOMAIN bookings, u \in Users :
        /\ bookings[bid].bookingStatus = "completed"
        /\ bookings[bid].driverContact # NoContact
        /\ bookings[bid].passengerContact # NoContact
        /\ ~IsParty(bookings[bid], u)
        /\ ShareResponse(u, bid).status = 403
        /\ RateResponse(u, bid, Num(MaxRating)).status = 403

\* What the listing promises for one request: only the caller's own
\* bookings, of the status asked for; newest first; the matching records
\* from number (page-1)*limit + 1 on, at most limit of them; total is the
\* number of matching records and totalPages is ceil(total / limit), the
\* least number of pages of limit records that hold them all.
ListingContract(u, q) ==
    LET r == ListResponse(u, q)
        page == ListPage(q)
        limit == ListLimit(q)
        found == FindSorted(u, q.status, Len(bookings))
        skipped == (page - 1) * limit
    IN /\ \A k \in DOMAIN r.bookings :
             /\ bookings[r.bookings[k]].passenger = u
             /\ q.status # NoStatus =>
                   bookings[r.bookings[k]].bookingStatus = q.status
       /\ \A k, l \in DOMAIN r.bookings : k < l => r.bookings[k] > r.bookings[l]
       /\ Len(r.bookings) <= limit
       /\ \A k \in DOMAIN r.bookings : r.bookings[k] = found[skipped + k]
       /\ Len(r.bookings) = limit \/ skipped + Len(r.bookings) >= Len(found)
       /\ r.total = Cardinality({i \in DOMAIN bookings :
                                    ListMatches(bookings[i], u, q.status)})
       /\ ~r.totalPages.null
       /\ r.totalPages.value * limit >= r.total
       /\ (r.totalPages.value - 1) * limit < r.total \/ r.total = 0

\* C11: the listing returns only the caller's own bookings (of the status
\* given, if one is), newest first, skips the first (page-1)*limit matching
\* records and returns at most limit of them, with totalPages =
\* ceil(total / limit), total being the number of matching records.
C11_Listing == \A u \in Users, q \in ListQueries : ListingContract(u, q)

\* The points a user has received on the bookings: the ratings stored in the
\* directions that point at the user.
RECURSIVE PointsReceivedFrom(_, _)
PointsReceivedFrom(u, i) ==
    IF i > Len(bookings) THEN 0
    ELSE LET b == bookings[i] IN
         (IF IsDriver(b, u) THEN b.rating.forDriver ELSE 0)
         + (IF IsPassenger(b, u) THEN b.rating.forPassenger ELSE 0)
         + PointsReceivedFrom(u, i + 1)

InitialPoints(u) == IF u = "u1" THEN 4 * 2 ELSE 0

\* The user a rate request by u on booking b rates.
RatedUser(b, u) == IF IsPassenger(b, u) THEN trips[b.trip].driver ELSE b.passenger

\* C12: an accepted rating r of a user with average a and count c leaves the
\* user with count c + 1 and average (a*c + r) / (c + 1); so every user's
\* count is the initial count plus the number of ratings received, and
\* average * count the initial points plus the points received.
C12_StreamingMean ==
    /\ \A u \in Users, bid \in DOMAIN bookings, rating \in RatingRequests :
          RateResponse(u, bid, rating).status = 200 =>
          LET target == RatedUser(bookings[bid], u)
              before == users[target]
              after == RateUsers(u, bid, rating)[target]
          IN /\ after.count = before.count + 1
             /\ after.average =
                   Frac(before.average.num * before.count
                           + rating.value * before.average.den,
                        before.average.den * (before.count + 1))
    /\ \A u \in Users :
          /\ users[u].count = InitialCount(u) + RatingsReceivedFrom(u, 1)
          /\ users[u].average.num * users[u].count =
                (InitialPoints(u) + PointsReceivedFrom(u, 1)) * users[u].average.den

\* C13: 'cancelled' is terminal: a booking whose bookingStatus is
\* 'cancelled' keeps that status through every later payment-update,
\* verify-otp, cancel and rate request.
C13_CancelledIsTerminal ==
    [][\A i \in DOMAIN bookings :
          bookings[i].bookingStatus = "cancelled" =>
          bookings'[i].bookingStatus = "cancelled"]_vars

\* C14: a booking's seats and amount go back to its trip at most once over
\* any sequence of cancel and payment-update requests, so no trip's
\* bookedSeats or totalEarnings ever falls below zero.
C14_ReleasedOnce ==
    \A t \in TripIds : trips[t].bookedSeats >= 0 /\ trips[t].totalEarnings >= 0

\* The entries of trip t's roster for user u with n seats, and the bookings
\* of trip t, not cancelled, of passenger u with n seats.
RosterEntries(t, u, n) ==
    {k \in DOMAIN trips[t].passengers :
        trips[t].passengers[k].user = u /\ trips[t].passengers[k].seatsBooked = n}

HeldBookings(t, u, n) ==
    {i \in DOMAIN bookings :
        Held(bookings[i], t) /\ bookings[i].passenger = u
                             /\ bookings[i].seatsBooked = n}

\* C15: after any sequence of create, cancel and payment-update requests, a
\* trip's roster holds exactly one entry (same user, same seatsBooked) for
\* each of the trip's bookings that is not cancelled.
C15_RosterMirrorsBookings ==
    \A t \in TripIds, u \in Users, n \in MinSeatsBooked..MaxSeatsBooked :
        Cardinality(RosterEntries(t, u, n)) = Cardinality(HeldBookings(t, u, n))

\* A create request that has passed the checks of the handler.
CreatePassed(r) ==
    /\ r.op = "create"
    /\ \/ r.pc \in {"checked", "bookingSaved", "tripSaved"}
       \/ (r.pc = "done" /\ r.resp.status = 201)

\* C16: a create request is decided on the copy of the Trip it loaded and on
\* nothing else: every request that found room on its own copy goes on to
\* save its booking and is answered 201, whatever other requests have saved
\* since, and the counter it saves is its copy's plus its own seats (so the
\* stored bookedSeats stays within totalSeats while the bookings do not).
\* Two requests that both load the Trip before either saves it can so both
\* succeed with more seats together than the trip had left.
C16_DecidedOnOwnCopy ==
    /\ \A p \in Requests :
          LET r == inflight[p] IN
          /\ CreatePassed(r) => hasAvailableSeats(r.trip, r.body.seatsBooked)
          /\ (r.op = "create" /\ r.pc = "done" /\ Loaded(r.trip)) =>
                (r.resp.status = 201 <=>
                    CreateCheckOn(r.trip, r.user, r.body) = 201)
          /\ (CreatePassed(r) /\ r.pc # "checked") =>
                /\ r.bid \in DOMAIN bookings
                /\ bookings[r.bid].passenger = r.user
                /\ bookings[r.bid].seatsBooked = r.body.seatsBooked
                /\ bookings[r.bid].bookingStatus = "pending"
    /\ \A t \in TripIds : trips[t].bookedSeats <= trips[t].totalSeats

\* C16 witness: two requests, each answered 201, whose bookings together hold
\* more seats than the trip has, while the trip's counter is within capacity.
C16_Oversubscribed ==
    \E p, q \in Requests :
        /\ p # q
        /\ inflight[p].pc = "done" /\ inflight[p].resp.status = 201
        /\ inflight[q].pc = "done" /\ inflight[q].resp.status = 201
        /\ inflight[p].body.tripId = "t1" /\ inflight[q].body.tripId = "t1"
        /\ inflight[p].trip.bookedSeats = 0 /\ inflight[q].trip.bookedSeats = 0
        /\ SeatsHeldFrom("t1", 1) > trips["t1"].totalSeats
        /\ trips["t1"].bookedSeats <= trips["t1"].totalSeats

\* A rate request that has passed the checks of the handler.
RatePassed(r) ==
    /\ r.op = "rate"
    /\ \/ r.pc \in {"checked", "userLoaded", "userSaved"}
       \/ (r.pc = "done" /\ r.resp.status = 200)

\* The rate requests that have saved a new count for user u.
RateSavedFor(u) ==
    {p \in Requests :
        /\ RatePassed(inflight[p])
        /\ inflight[p].pc \in {"userSaved", "done"}
        /\ RateTarget(inflight[p].booking, inflight[p].user) = u}

\* C17: a rate request is decided on the copy of the booking it loaded: it
\* is accepted when that copy is completed and shows no rating in the
\* caller's direction, whatever other requests have saved since; each
\* accepted request raises the rated user's count, so the count follows the
\* accepted requests and not the rated directions.  Two requests of one role
\* on one booking that both load it before either saves it are so both
\* accepted.
C17_DecidedOnOwnCopy ==
    /\ \A p \in Requests :
          LET r == inflight[p] IN
          RatePassed(r) =>
             /\ r.booking.bookingStatus = "completed"
             /\ IsParty(r.booking, r.user)
             /\ IsPassenger(r.booking, r.user) => r.booking.rating.forDriver = 0
             /\ ~IsPassenger(r.booking, r.user) => r.booking.rating.forPassenger = 0
             /\ r.pc = "done" =>
                   IF IsPassenger(r.booking, r.user)
                   THEN bookings[r.bid].rating.forDriver # 0
                   ELSE bookings[r.bid].rating.forPassenger # 0
    /\ \A u \in Users :
          /\ users[u].count <= InitialCount(u) + Cardinality(RateSavedFor(u))
          /\ users[u].count >= InitialCount(u) + RatingsReceivedFrom(u, 1)

\* C17 witness: two requests of the passenger on one booking, both answered
\* 200; the driver's count has grown by two for the one direction rated.
C17_RatedTwice ==
    \E p, q \in Requests :
        /\ p # q
        /\ inflight[p].pc = "done" /\ inflight[p].resp.status = 200
        /\ inflight[q].pc = "done" /\ inflight[q].resp.status = 200
        /\ inflight[p].bid = inflight[q].bid
        /\ inflight[p].user = inflight[q].user
        /\ IsPassenger(bookings[inflight[p].bid], inflight[p].user)
        /\ LET driver == trips[bookings[inflight[p].bid].trip].driver IN
           /\ users[driver].count = InitialCount(driver) + 2
           /\ RatingsReceivedFrom(driver, 1) = 1

\* A request whose trip.save() has failed.
FailedAtTripSave(r) ==
    /\ r.pc = "done" /\ r.resp = ServerError
    /\ r.op \in {"create", "cancel"}

\* C18: nothing is undone when trip.save() fails.  A cancel that fails there
\* is answered with an error, leaves its booking 'cancelled' and the trip as
\* it was, the booking's seats and amount still counted; a create that fails
\* there leaves its new booking persisted and the trip as it was, no seat
\* counted for it.
C18_NoCompensation ==
    \A p \in Requests :
        LET r == inflight[p] IN
        FailedAtTripSave(r) =>
           /\ r.resp.status = 500
           /\ r.bid \in DOMAIN bookings
           /\ r.op = "cancel" =>
                 /\ bookings[r.bid].bookingStatus = "cancelled"
                 /\ trips[r.booking.trip] = r.trip
           /\ r.op = "create" =>
                 /\ bookings[r.bid].passenger = r.user
                 /\ bookings[r.bid].bookingStatus = "pending"
                 /\ bookings[r.bid].seatsBooked = r.body.seatsBooked
                 /\ trips[r.body.tripId] = r.trip

\* C18 witness: a cancel has just failed at trip.save(): its booking is
\* cancelled and the trip's counters still hold its seats and amount; an
\* earlier create failed there too, and its booking is pending with no seat
\* counted and no entry on the roster.
C18_LeftInconsistent ==
    \E p \in Requests, i \in DOMAIN bookings :
        LET r == inflight[p] IN
        /\ FailedAtTripSave(r) /\ r.op = "cancel"
        /\ i # r.bid
        /\ bookings[r.bid].bookingStatus = "cancelled"
        /\ bookings[i].bookingStatus = "pending" /\ bookings[i].otp.code = ""
        /\ trips["t1"].bookedSeats = bookings[r.bid].seatsBooked
        /\ trips["t1"].totalEarnings = bookings[r.bid].totalAmount
        /\ Len(trips["t1"].passengers) = 1
        /\ SeatsHeldFrom("t1", 1) = bookings[i].seatsBooked

====
